---- MODULE Spec2Model ----
(***************************************************************************)
(* Model of package random (src/src/random/random.go): a cgo binding of    *)
(* the GSL random number generators.                                       *)
(*                                                                         *)
(* An RngState is a Go struct holding one C pointer to a gsl_rng, which    *)
(* lives in the native heap.  The Go side never looks into the generator:  *)
(* every method hands the pointer to a GSL routine.  The model therefore   *)
(* keeps                                                                   *)
(*   - the native heap (heap): per address the generator stored there,     *)
(*   - the RngState values the caller holds (handle): addresses,           *)
(*   - the finalizers the Go runtime has been given (fin),                 *)
(*   - GSL's two library variables gsl_rng_default / gsl_rng_default_seed, *)
(*   - the file the state is written to and read from,                     *)
(*   - what became of the process (proc) and of the last call (lastOp).    *)
(*                                                                         *)
(* The arithmetic of the GSL algorithms is not part of the binding; the    *)
(* catalog entries are reduced-width generators that keep what the         *)
(* binding relies on: min, max, state size, the seed-0 convention and a    *)
(* deterministic step.                                                     *)
(***************************************************************************)
EXTENDS Integers, Sequences, FiniteSets, TLC

\* ------------------------------------------------------------------ bounds

\* Native heap addresses available to gsl_rng_alloc / gsl_rng_clone.
MaxAddr == 2
\* RngState variables the caller holds.
MaxHandles == 2
\* Seeds handed to Set and found in GSL_RNG_SEED range over 0..MaxSeed.
MaxSeed == 1
\* Limits handed to UniformInt range over 0..MaxLimit.
MaxLimit == 5
\* Lengths handed to the slice functions range over 0..MaxSlice.
MaxSlice == 2
\* Consecutive draws followed after a Set, a Clone or an Fread.
MaxDraws == 2
\* Iterations after which a sampling loop that accepted nothing has gone
\* through every state of the generator and never ends.
LoopFuel == 8

Addr == 1..MaxAddr
H == 1..MaxHandles
Seeds == 0..MaxSeed
Limits == 0..MaxLimit
Lengths == 0..MaxSlice

\* ----------------------------------------------------------- the catalog

\* The catalog entries of lines 36-99 the model instantiates.
Types == {"mt19937", "minstd"}

\* C unsigned long arithmetic (reduced from 2^64): GSL works in it, and the
\* binding converts with C.ulong / uint64.
ULongMod == 2 ^ 12

\* gsl_rng_min
TypeMin(T) == IF T = "minstd" THEN 1 ELSE 0

\* gsl_rng_max
TypeMax(T) == IF T = "minstd" THEN 4 ELSE 3

\* gsl_rng_size: bytes of the state buffer.
TypeSize(T) == IF T = "minstd" THEN 1 ELSE 2

\* r->type->set: the state buffer after seeding.  Seed 0 selects the
\* algorithm's own default seed; larger seeds are reduced.
TypeSet(T, seed) ==
    IF T = "minstd"
    THEN LET s == IF seed % 5 = 0 THEN 1 ELSE seed % 5
         IN  <<s>>
    ELSE LET s == IF seed = 0 THEN 2 ELSE seed % 4
         IN  <<s % 2, s \div 2>>

\* r->type->get: one step of the generator: the new buffer and the raw value.
\* The buffer is whatever bytes are there: a minstd buffer holding 0 (restored
\* from a foreign file) yields 0 for ever, below the algorithm's minimum.
TypeGet(T, buf) ==
    IF T = "minstd"
    THEN LET x == (2 * buf[1]) % 5
         IN  [buf |-> <<x>>, raw |-> x]
    ELSE LET v == ((buf[1] % 2) + 2 * (buf[2] % 2) + 3) % 4
         IN  [buf |-> <<v % 2, v \div 2>>, raw |-> v]

\* r->type->get_double: the raw value as a fraction of the algorithm's
\* modulus, written <<numerator, denominator>>.
TypeGetDouble(T, raw) == <<raw, TypeMax(T) + 1>>

\* The raw value of the n-th draw (n >= 1) from a generator of type T whose
\* buffer is buf.
RECURSIVE NthRaw(_, _, _)
NthRaw(T, buf, n) ==
    IF n <= 1 THEN TypeGet(T, buf).raw
    ELSE NthRaw(T, TypeGet(T, buf).buf, n - 1)

\* ------------------------------------------------------------------ state

VARIABLES
    heap,         \* native heap: address -> the gsl_rng stored there (by: who put it)
    handle,       \* the caller's RngState variables: an address, 0 when unset
    fin,          \* addresses whose finalizer (set in Alloc) has yet to run
    defaultType,  \* gsl_rng_default
    defaultSeed,  \* gsl_rng_default_seed
    file,         \* the state file: whether it exists, and its bytes
    fileSrc,      \* history: the generator the last complete Fwrite wrote
    proc,         \* "running", or how the process ended
    track,        \* history: what the watched handle was last set to, and the draws since
    lastOp        \* the last call and what the caller got back

vars == <<heap, handle, fin, defaultType, defaultSeed, file, fileSrc, proc,
          track, lastOp>>

NoFile == [exists |-> FALSE, bytes |-> <<>>]
NoSrc == [typ |-> "none", buf |-> <<>>]
NoTrack == [kind |-> "none", typ |-> "none", seed |-> 0, buf |-> <<>>, n |-> 0]
Unused == [live |-> FALSE, by |-> "none", typ |-> "none", buf |-> <<>>]

\* What the caller got back from a call.  outcome: "returned", or "abort"
\* (GSL's default error handler), "segv" (a freed gsl_rng was used), "hang"
\* (a sampling loop that never accepts).  err: the Go error value, "n/a" for a
\* method that has no error result.  gslerr: the code GSL's error handler was
\* called with.  typ, typ2: the types of the generators the call read.
Call(op, h, arg, typ, typ2, outcome, res, err, gslerr) ==
    [op |-> op, h |-> h, arg |-> arg, typ |-> typ, typ2 |-> typ2,
     outcome |-> outcome, res |-> res, err |-> err, gslerr |-> gslerr]

\* A call on one generator that returned without a Go error value.
Ret(op, h, arg, typ, res) ==
    Call(op, h, arg, typ, "none", "returned", res, "n/a", "none")

Init ==
    /\ heap = [a \in Addr |-> Unused]
    /\ handle = [h \in H |-> 0]
    /\ fin = {}
    /\ defaultType = "mt19937"
    /\ defaultSeed = 0
    /\ file = NoFile
    /\ fileSrc = NoSrc
    /\ proc = "running"
    /\ track = NoTrack
    /\ lastOp = Ret("init", 0, 0, "none", 0)

\* The generator a handle points at: what the C code reads through the pointer.
Gen(h) == heap[handle[h]]

\* A handle that holds a pointer.
Held(h) == handle[h] # 0

\* The process ends (outcome how) inside a call.
Ended(op, h, arg, typ2, how, gslerr) ==
    /\ proc' = how
    /\ lastOp' = Call(op, h, arg, Gen(h).typ, typ2, how, 0, "n/a", gslerr)
    /\ UNCHANGED <<heap, handle, fin, defaultType, defaultSeed, file, fileSrc>>

\* A call through a pointer to a freed gsl_rng: the freed memory may still hold
\* what was there (the call goes on as if the generator were alive) or not (the
\* process dies).
FreedCrash(op, h, arg) ==
    /\ ~Gen(h).live
    /\ Ended(op, h, arg, "none", "segv", "none")

\* The variables a call on the generators leaves alone.
Globals == <<defaultType, defaultSeed, file, fileSrc, proc>>

\* --------------------------------------------------------------- lifecycle

\* gsl_rng_alloc: a new gsl_rng of type T at address a, seeded with
\* gsl_rng_default_seed.
gsl_rng_alloc(T, a) ==
    [heap EXCEPT ![a] = [live |-> TRUE, by |-> "Alloc", typ |-> T,
                         buf |-> TypeSet(T, defaultSeed)]]

\* The finalizers the runtime holds once Alloc has put its generator at a.
\* The finalizer is set on the address of Alloc's local variable state, and a
\* copy of state is returned: the object the finalizer watches is unreachable
\* as soon as Alloc returns, so the finalizer may run from then on.
AllocFinalizers(a) == fin \cup {a}

\* Alloc(rngType).
Alloc(h, T, a) ==
    /\ proc = "running"
    /\ ~heap[a].live
    /\ heap' = gsl_rng_alloc(T, a)
    /\ fin' = AllocFinalizers(a)
    /\ handle' = [handle EXCEPT ![h] = a]
    /\ lastOp' = Ret("Alloc", h, 0, T, a)
    /\ UNCHANGED Globals

\* The garbage collector runs a finalizer set in Alloc: gsl_rng_free.
Finalizer(a) ==
    /\ proc = "running"
    /\ a \in fin
    /\ heap' = [heap EXCEPT ![a].live = FALSE]
    /\ fin' = fin \ {a}
    /\ lastOp' = Ret("finalizer", 0, a, heap[a].typ, 0)
    /\ UNCHANGED <<handle, Globals>>

\* Set: gsl_rng_set(s.state, seed).
Set(h, seed) ==
    /\ proc = "running"
    /\ Held(h)
    /\ \/ FreedCrash("Set", h, seed)
       \/ /\ heap' = [heap EXCEPT ![handle[h]].buf = TypeSet(Gen(h).typ, seed)]
          /\ lastOp' = Ret("Set", h, seed, Gen(h).typ, 0)
          /\ UNCHANGED <<handle, fin, Globals>>

\* A Clone that sets a finalizer as Alloc does.
CloneSetsFinalizer(a) == fin \cup {a}

\* The finalizers the runtime holds once Clone has put its generator at a:
\* Clone sets none.
CloneFinalizers(a) == fin

\* Clone: gsl_rng_clone(s.state): a new gsl_rng at address a with the type and
\* the bytes read through s; the result goes to the caller's variable c.
Clone(h, c, a) ==
    /\ proc = "running"
    /\ Held(h)
    /\ \/ FreedCrash("Clone", h, c)
       \/ /\ ~heap[a].live
          /\ heap' = [heap EXCEPT ![a] = [live |-> TRUE, by |-> "Clone",
                                          typ |-> Gen(h).typ, buf |-> Gen(h).buf]]
          /\ fin' = CloneFinalizers(a)
          /\ handle' = [handle EXCEPT ![c] = a]
          /\ lastOp' = Ret("Clone", h, c, Gen(h).typ, a)
          /\ UNCHANGED Globals

\* gsl_rng_memcpy(dest, src): GSL_EINVAL unless the two are of one type, else
\* the bytes of src's buffer go to dest's.
gsl_rng_memcpy(dest, src) ==
    IF dest.typ # src.typ
    THEN [status |-> "EINVAL", dest |-> dest]
    ELSE [status |-> "SUCCESS", dest |-> [dest EXCEPT !.buf = src.buf]]

\* What Memcpy hands its caller for gsl_rng_memcpy's status: nothing, the
\* status is dropped (the method has no result).
MemcpyResult(status) == "n/a"

\* Memcpy: gsl_rng_memcpy(dest.state, s.state).  On GSL_EINVAL GSL calls its
\* error handler, which aborts the process unless the process has installed
\* another one; then gsl_rng_memcpy returns the status.
Memcpy(h, d) ==
    /\ proc = "running"
    /\ Held(h) /\ Held(d)
    /\ LET m == gsl_rng_memcpy(Gen(d), Gen(h))
       IN  \/ /\ ~Gen(h).live \/ ~Gen(d).live
              /\ Ended("Memcpy", h, d, Gen(d).typ, "segv", "none")
           \/ /\ m.status = "EINVAL"
              /\ Ended("Memcpy", h, d, Gen(d).typ, "abort", "EINVAL")
           \/ /\ heap' = [heap EXCEPT ![handle[d]] = m.dest]
              /\ lastOp' = Call("Memcpy", h, d, Gen(h).typ, Gen(d).typ, "returned", 0,
                                MemcpyResult(m.status),
                                IF m.status = "EINVAL" THEN "EINVAL" ELSE "none")
              /\ UNCHANGED <<handle, fin, Globals>>

\* ---------------------------------------------------------------- sampling

\* Get: gsl_rng_get(s.state).
Get(h) ==
    /\ proc = "running"
    /\ Held(h)
    /\ \/ FreedCrash("Get", h, 0)
       \/ LET g == TypeGet(Gen(h).typ, Gen(h).buf)
          IN  /\ heap' = [heap EXCEPT ![handle[h]].buf = g.buf]
              /\ lastOp' = Ret("Get", h, 0, Gen(h).typ, g.raw)
              /\ UNCHANGED <<handle, fin, Globals>>

\* One Get as a sampling step.
GetStep(T, buf, n) ==
    LET g == TypeGet(T, buf) IN [buf |-> g.buf, out |-> g.raw, bad |-> "none"]

\* gsl_rng_uniform: one draw, as a double in [0,1).
UniformStep(T, buf, n) ==
    LET g == TypeGet(T, buf)
    IN  [buf |-> g.buf, out |-> TypeGetDouble(T, g.raw), bad |-> "none"]

\* gsl_rng_uniform_pos: draws until the double is not 0.
RECURSIVE UniformPosLoop(_, _, _)
UniformPosLoop(T, buf, fuel) ==
    IF fuel = 0 THEN [buf |-> buf, out |-> <<0, 1>>, bad |-> "hang"]
    ELSE LET g == TypeGet(T, buf)
         IN  IF g.raw = 0 THEN UniformPosLoop(T, g.buf, fuel - 1)
             ELSE [buf |-> g.buf, out |-> TypeGetDouble(T, g.raw), bad |-> "none"]

UniformPosStep(T, buf, n) == UniformPosLoop(T, buf, LoopFuel)

\* A sampling call that went through the generator behind h: the buffer moves
\* on; the call returns res, or never returns (bad = "hang").
Sampled(op, h, arg, s, res) ==
    /\ heap' = [heap EXCEPT ![handle[h]].buf = s.buf]
    /\ lastOp' = Call(op, h, arg, Gen(h).typ, "none",
                      IF s.bad = "none" THEN "returned" ELSE s.bad,
                      IF s.bad = "none" THEN res ELSE 0, "n/a", "none")
    /\ proc' = IF s.bad = "none" THEN proc ELSE s.bad
    /\ UNCHANGED <<handle, fin, defaultType, defaultSeed, file, fileSrc>>

\* Uniform: gsl_rng_uniform(s.state).
Uniform(h) ==
    /\ proc = "running"
    /\ Held(h)
    /\ \/ FreedCrash("Uniform", h, 0)
       \/ LET s == UniformStep(Gen(h).typ, Gen(h).buf, 0)
          IN  Sampled("Uniform", h, 0, s, s.out)

\* UniformPos: gsl_rng_uniform_pos(s.state).
UniformPos(h) ==
    /\ proc = "running"
    /\ Held(h)
    /\ \/ FreedCrash("UniformPos", h, 0)
       \/ LET s == UniformPosStep(Gen(h).typ, Gen(h).buf, 0)
          IN  Sampled("UniformPos", h, 0, s, s.out)

\* A gsl_rng_uniform_int that reduces the raw value modulo n and rejects
\* nothing.
UniformIntModulo(T, n, raw) == ((raw - TypeMin(T)) % ULongMod) % n

\* gsl_rng_uniform_int, the scaling of one raw value for limit n: the raw
\* value less the algorithm's minimum, divided by scale = range / n, in
\* unsigned long arithmetic.  The value is accepted when the result is below n.
UniformIntScaled(T, n, raw) ==
    ((raw - TypeMin(T)) % ULongMod) \div ((TypeMax(T) - TypeMin(T)) \div n)

\* gsl_rng_uniform_int, the loop: do k = scaled(get(r)) while (k >= n).
RECURSIVE UniformIntLoop(_, _, _, _)
UniformIntLoop(T, buf, n, fuel) ==
    IF fuel = 0 THEN [buf |-> buf, out |-> 0, bad |-> "hang"]
    ELSE LET g == TypeGet(T, buf)
             k == UniformIntScaled(T, n, g.raw)
         IN  IF k >= n THEN UniformIntLoop(T, g.buf, n, fuel - 1)
             ELSE [buf |-> g.buf, out |-> k, bad |-> "none"]

\* A gsl_rng_uniform_int that cuts a limit above the range down to the range
\* without a word.
gsl_rng_uniform_int_truncating(T, buf, n) ==
    IF n = 0
    THEN [buf |-> buf, out |-> 0, bad |-> "EINVAL"]
    ELSE UniformIntLoop(T, buf,
                        IF n > TypeMax(T) - TypeMin(T) THEN TypeMax(T) - TypeMin(T) ELSE n,
                        LoopFuel)

\* gsl_rng_uniform_int(r, n): with range = max - min, GSL_EINVAL (and the
\* value 0) when n > range or n = 0, else the loop.
gsl_rng_uniform_int(T, buf, n) ==
    IF n > TypeMax(T) - TypeMin(T) \/ n = 0
    THEN [buf |-> buf, out |-> 0, bad |-> "EINVAL"]
    ELSE UniformIntLoop(T, buf, n, LoopFuel)

\* UniformInt: uint64(gsl_rng_uniform_int(s.state, limit)).  On GSL_EINVAL GSL
\* calls its error handler, which aborts the process unless the process has
\* installed another one; then the call returns 0.
UniformInt(h, limit) ==
    /\ proc = "running"
    /\ Held(h)
    /\ LET s == gsl_rng_uniform_int(Gen(h).typ, Gen(h).buf, limit)
       IN  \/ FreedCrash("UniformInt", h, limit)
           \/ /\ s.bad = "EINVAL"
              /\ Ended("UniformInt", h, limit, "none", "abort", "EINVAL")
           \/ /\ s.bad = "EINVAL"
              /\ lastOp' = Call("UniformInt", h, limit, Gen(h).typ, "none",
                                "returned", s.out, "n/a", "EINVAL")
              /\ UNCHANGED <<heap, handle, fin, Globals>>
           \/ /\ s.bad # "EINVAL"
              /\ Sampled("UniformInt", h, limit, s, s.out)

\* One UniformInt of a slice, the error handler returning.
UniformIntStep(T, buf, limit) ==
    LET s == gsl_rng_uniform_int(T, buf, limit)
    IN  [s EXCEPT !.bad = IF @ = "EINVAL" THEN "none" ELSE @]

\* The step a slice function repeats: GetSlice calls Get, UniformSlice calls
\* Uniform, UniformIntSlice calls UniformInt.
SliceStep(op, T, buf, n) ==
    CASE op = "GetSlice" -> GetStep(T, buf, n)
      [] op = "UniformSlice" -> UniformStep(T, buf, n)
      [] op = "UniformIntSlice" -> UniformIntStep(T, buf, n)

\* The loop of a slice function: length calls of its step, the results in
\* order.
RECURSIVE Repeat(_, _, _, _, _)
Repeat(op, T, buf, n, length) ==
    IF length = 0 THEN [buf |-> buf, out |-> <<>>, bad |-> "none"]
    ELSE LET s == SliceStep(op, T, buf, n)
             r == Repeat(op, T, s.buf, n, length - 1)
         IN  IF s.bad # "none" THEN [buf |-> s.buf, out |-> <<>>, bad |-> s.bad]
             ELSE [buf |-> r.buf, out |-> <<s.out>> \o r.out, bad |-> r.bad]

\* GetSlice(length).
GetSlice(h, length) ==
    /\ proc = "running"
    /\ Held(h)
    /\ \/ length > 0 /\ FreedCrash("GetSlice", h, length)
       \/ LET s == Repeat("GetSlice", Gen(h).typ, Gen(h).buf, 0, length)
          IN  Sampled("GetSlice", h, length, s, s.out)

\* UniformSlice(length).
UniformSlice(h, length) ==
    /\ proc = "running"
    /\ Held(h)
    /\ \/ length > 0 /\ FreedCrash("UniformSlice", h, length)
       \/ LET s == Repeat("UniformSlice", Gen(h).typ, Gen(h).buf, 0, length)
          IN  Sampled("UniformSlice", h, length, s, s.out)

\* UniformIntSlice(limit, length).
UniformIntSlice(h, limit, length) ==
    /\ proc = "running"
    /\ Held(h)
    /\ LET s == gsl_rng_uniform_int(Gen(h).typ, Gen(h).buf, limit)
           r == Repeat("UniformIntSlice", Gen(h).typ, Gen(h).buf, limit, length)
       IN  \/ length > 0 /\ FreedCrash("UniformIntSlice", h, limit)
           \/ /\ length > 0 /\ s.bad = "EINVAL"
              /\ Ended("UniformIntSlice", h, limit, "none", "abort", "EINVAL")
           \/ Sampled("UniformIntSlice", h, limit, r, r.out)

\* --------------------------------------------------------------- auxiliary

\* A call that only reads through the pointer.
Reads(op, h, res) ==
    /\ proc = "running"
    /\ Held(h)
    /\ \/ FreedCrash(op, h, 0)
       \/ /\ lastOp' = Ret(op, h, 0, Gen(h).typ, res)
          /\ UNCHANGED <<heap, handle, fin, Globals>>

\* Name (and String) of an RngState: gsl_rng_name(s.state).
Name(h) == Reads("Name", h, Gen(h).typ)

\* Max: gsl_rng_max(s.state).
Max(h) == Reads("Max", h, TypeMax(Gen(h).typ))

\* Min: gsl_rng_min(s.state).
Min(h) == Reads("Min", h, TypeMin(Gen(h).typ))

\* Size: gsl_rng_size(s.state).
Size(h) == Reads("Size", h, TypeSize(Gen(h).typ))

\* State: gsl_rng_state(s.state), the address of the state buffer.
State(h) == Reads("State", h, handle[h])

\* ----------------------------------------------------------------- catalog

\* A call that reads the catalog.
Looked(op, T, res) ==
    /\ proc = "running"
    /\ lastOp' = Ret(op, 0, 0, T, res)
    /\ UNCHANGED <<heap, handle, fin, Globals>>

\* Default: gsl_rng_default.
Default == Looked("Default", "none", defaultType)

\* DefaultSeed: gsl_rng_default_seed.
DefaultSeed == Looked("DefaultSeed", "none", defaultSeed)

\* Name (and String) of an RngType.
TypeName(T) == Looked("TypeName", T, T)

\* TypesSetup: the catalog by name.
TypesSetup == Looked("TypesSetup", "none", [T \in Types |-> T])

\* What GSL_RNG_TYPE and GSL_RNG_SEED may hold when EnvSetup is called
\* ("unset", -1: the variable is not set).
EnvTypes == Types \cup {"unset", "nosuch"}
EnvSeeds == Seeds \cup {-1}

\* gsl_rng_env_setup, the generator GSL_RNG_TYPE selects: mt19937 when the
\* variable is unset, "none" (GSL_EINVAL) when it names no generator.
EnvType(envType) ==
    CASE envType = "unset" -> "mt19937"
      [] envType \in Types -> envType
      [] OTHER -> "none"

\* A gsl_rng_env_setup that leaves the seed alone when GSL_RNG_SEED is unset.
EnvSeedKept(envSeed) == IF envSeed = -1 THEN defaultSeed ELSE envSeed

\* gsl_rng_env_setup, the seed GSL_RNG_SEED selects: 0 when the variable is
\* unset (-1 here).
EnvSeed(envSeed) == IF envSeed = -1 THEN 0 ELSE envSeed

\* EnvSetup: gsl_rng_env_setup() sets gsl_rng_default and gsl_rng_default_seed
\* from the environment and returns gsl_rng_default.  An unknown generator
\* name is GSL_EINVAL before anything is set.
EnvSetup(envType, envSeed) ==
    /\ proc = "running"
    /\ \/ /\ EnvType(envType) = "none"
          /\ proc' = "abort"
          /\ lastOp' = Call("EnvSetup", 0, envSeed, envType, "none", "abort", 0,
                            "n/a", "EINVAL")
          /\ UNCHANGED <<heap, handle, fin, defaultType, defaultSeed, file, fileSrc>>
       \/ /\ EnvType(envType) = "none"
          /\ lastOp' = Call("EnvSetup", 0, envSeed, envType, "none", "returned",
                            "nil", "n/a", "EINVAL")
          /\ UNCHANGED <<heap, handle, fin, Globals>>
       \/ /\ EnvType(envType) # "none"
          /\ defaultType' = EnvType(envType)
          /\ defaultSeed' = EnvSeed(envSeed)
          /\ lastOp' = Call("EnvSetup", 0, envSeed, envType, "none", "returned",
                            EnvType(envType), "n/a", "none")
          /\ UNCHANGED <<heap, handle, fin, file, fileSrc, proc>>

\* ----------------------------------------------------------- serialization

\* The largest state buffer of the catalog.
MaxTypeSize == CHOOSE n \in {TypeSize(T) : T \in Types} : \A T \in Types : TypeSize(T) <= n

\* What the system may do with a transfer: -1, the file cannot be opened; else
\* the number of bytes that go through.
Transfers == -1..MaxTypeSize

\* rng_fwrite(filename, r): the file is opened for writing and the size bytes
\* of the state buffer are written to it.  k is what the system did: -1, the
\* file could not be opened; else the bytes it took before the write ended.
\* The status is 0 when all size bytes were written.
rng_fwrite(buf, size, k) ==
    [status |-> IF k = size THEN 0 ELSE 1,
     file |-> IF k = -1 THEN file ELSE [exists |-> TRUE, bytes |-> SubSeq(buf, 1, k)]]

\* An Fwrite that drops rng_fwrite's status, as Memcpy drops gsl_rng_memcpy's.
FwriteStatusDropped(status) == "nil"

\* Fwrite, from rng_fwrite's status to the error the caller gets.
FwriteResult(status) == IF status # 0 THEN "error" ELSE "nil"

\* Fwrite(s_filename).
Fwrite(h, k) ==
    /\ proc = "running"
    /\ Held(h)
    /\ k \in -1..TypeSize(Gen(h).typ)
    /\ \/ FreedCrash("Fwrite", h, k)
       \/ LET w == rng_fwrite(Gen(h).buf, TypeSize(Gen(h).typ), k)
          IN  /\ file' = w.file
              /\ fileSrc' = CASE w.status = 0 -> [typ |-> Gen(h).typ, buf |-> Gen(h).buf]
                              [] k = -1 -> fileSrc
                              [] OTHER -> NoSrc
              /\ lastOp' = Call("Fwrite", h, k, Gen(h).typ, "none", "returned",
                                TypeSize(Gen(h).typ), FwriteResult(w.status), "none")
              /\ UNCHANGED <<heap, handle, fin, defaultType, defaultSeed, proc>>

\* rng_fread(filename, r): the file is opened for reading and size bytes are
\* read from it into the state buffer.  k is what the system did: -1, the file
\* could not be opened; else the bytes it gave before the read ended.  The
\* status is 0 when all size bytes were read.
rng_fread(buf, size, k) ==
    [status |-> IF k = size THEN 0 ELSE 1,
     buf |-> IF k = -1 THEN buf
             ELSE SubSeq(file.bytes, 1, k) \o SubSeq(buf, k + 1, size)]

\* Fread, from rng_fread's status to the error the caller gets.
FreadResult(status) == IF status # 0 THEN "error" ELSE "nil"

\* Fread(s_filename): returns s and the error.
Fread(h, k) ==
    /\ proc = "running"
    /\ Held(h)
    /\ k \in -1..TypeSize(Gen(h).typ)
    /\ IF file.exists THEN k <= Len(file.bytes) ELSE k = -1
    /\ \/ FreedCrash("Fread", h, k)
       \/ LET r == rng_fread(Gen(h).buf, TypeSize(Gen(h).typ), k)
          IN  /\ heap' = [heap EXCEPT ![handle[h]].buf = r.buf]
              /\ lastOp' = Call("Fread", h, k, Gen(h).typ, "none", "returned",
                                TypeSize(Gen(h).typ), FreadResult(r.status), "none")
              /\ UNCHANGED <<handle, fin, Globals>>

\* ----------------------------------------------------------------- history

\* The caller's variable whose history track keeps: the first (the variables
\* are interchangeable).
Watched == CHOOSE h \in H : \A g \in H : h <= g

\* The history after one more Get through the watched variable.
Drawn ==
    IF track.kind \in {"seed", "clone"} /\ track.n < MaxDraws
    THEN [track EXCEPT !.n = @ + 1]
    ELSE NoTrack

\* What the step just taken makes of the watched variable's history: the type
\* Alloc was given (fresh); the seed Set was given, the generator Clone copied
\* or the generator whose file Fread restored into a fresh state of its type,
\* with the number of Get calls through the variable since.  Calls through
\* other variables, and the finalizers, leave the history alone.
Tracked ==
    LET o == lastOp'
        h == Watched
    IN  CASE o.outcome # "returned" -> track
          [] o.op = "Alloc" /\ o.h = h ->
               [NoTrack EXCEPT !.kind = "fresh", !.typ = o.typ]
          [] o.op = "Clone" /\ o.arg = h ->
               [NoTrack EXCEPT !.kind = "clone", !.typ = o.typ, !.buf = Gen(o.h).buf]
          [] o.op = "Set" /\ o.h = h ->
               [NoTrack EXCEPT !.kind = "seed", !.typ = o.typ, !.seed = o.arg]
          [] o.op = "Get" /\ o.h = h -> Drawn
          [] o.op = "Fread" /\ o.h = h ->
               IF o.err = "nil" /\ track.kind = "fresh" /\ track.typ = fileSrc.typ
               THEN [NoTrack EXCEPT !.kind = "fread", !.typ = fileSrc.typ,
                                    !.buf = fileSrc.buf]
               ELSE NoTrack
          [] o.op = "Memcpy" /\ o.arg = h -> NoTrack
          [] o.op \in {"GetSlice", "Uniform", "UniformSlice", "UniformPos",
                       "UniformInt", "UniformIntSlice"} /\ o.h = h -> NoTrack
          [] OTHER -> track

\* A step with the history kept, for the kinds of history in kinds.
Watching(A, kinds) ==
    /\ A
    /\ track' = IF Tracked.kind \in kinds THEN Tracked ELSE NoTrack

\* A step with no history kept.
Plain(A) == A /\ UNCHANGED track

\* ---------------------------------------------------------- specifications

\* Every operation of the package, and the finalizers.
Next ==
    \/ Plain(\E h \in H, T \in Types, a \in Addr : Alloc(h, T, a))
    \/ Plain(\E a \in Addr : Finalizer(a))
    \/ Plain(\E h \in H, seed \in Seeds : Set(h, seed))
    \/ Plain(\E h \in H, c \in H, a \in Addr : Clone(h, c, a))
    \/ Plain(\E h \in H, d \in H : Memcpy(h, d))
    \/ Plain(\E h \in H : Get(h))
    \/ Plain(\E h \in H, length \in Lengths : GetSlice(h, length))
    \/ Plain(\E h \in H : Uniform(h))
    \/ Plain(\E h \in H, length \in Lengths : UniformSlice(h, length))
    \/ Plain(\E h \in H : UniformPos(h))
    \/ Plain(\E h \in H, limit \in Limits : UniformInt(h, limit))
    \/ Plain(\E h \in H, limit \in Limits, length \in Lengths :
                 UniformIntSlice(h, limit, length))
    \/ Plain(\E h \in H : Name(h))
    \/ Plain(\E h \in H : Max(h))
    \/ Plain(\E h \in H : Min(h))
    \/ Plain(\E h \in H : Size(h))
    \/ Plain(\E h \in H : State(h))
    \/ Plain(Default)
    \/ Plain(DefaultSeed)
    \/ Plain(\E T \in Types : TypeName(T))
    \/ Plain(TypesSetup)
    \/ Plain(\E envType \in EnvTypes, envSeed \in EnvSeeds : EnvSetup(envType, envSeed))
    \/ Plain(\E h \in H, k \in Transfers : Fwrite(h, k))
    \/ Plain(\E h \in H, k \in Transfers : Fread(h, k))

\* The whole package.  Its state space is the product of those of the four
\* families below, which is more than TLC goes through; each family is the
\* package restricted to the operations named, with allocation, the
\* finalizers and seeding in all of them.
Spec == Init /\ [][Next]_vars

\* Allocation, seeding and the sampling functions.
NextSampling ==
    \/ Plain(\E h \in H, T \in Types, a \in Addr : Alloc(h, T, a))
    \/ Plain(\E a \in Addr : Finalizer(a))
    \/ Plain(\E h \in H, seed \in Seeds : Set(h, seed))
    \/ Plain(\E h \in H : Get(h))
    \/ Plain(\E h \in H, length \in Lengths : GetSlice(h, length))
    \/ Plain(\E h \in H : Uniform(h))
    \/ Plain(\E h \in H, length \in Lengths : UniformSlice(h, length))
    \/ Plain(\E h \in H : UniformPos(h))
    \/ Plain(\E h \in H, limit \in Limits : UniformInt(h, limit))
    \/ Plain(\E h \in H, limit \in Limits, length \in Lengths :
                 UniformIntSlice(h, limit, length))

SpecSampling == Init /\ [][NextSampling]_vars

\* Allocation, seeding, drawing, cloning and copying, with the history of the
\* watched variable's seeds and clones.
NextLifecycle ==
    \/ Watching(\E h \in H, T \in Types, a \in Addr : Alloc(h, T, a), {"seed", "clone"})
    \/ Watching(\E a \in Addr : Finalizer(a), {"seed", "clone"})
    \/ Watching(\E h \in H, seed \in Seeds : Set(h, seed), {"seed", "clone"})
    \/ Watching(\E h \in H : Get(h), {"seed", "clone"})
    \/ Watching(\E h \in H, c \in H, a \in Addr : Clone(h, c, a), {"seed", "clone"})
    \/ Watching(\E h \in H, d \in H : Memcpy(h, d), {"seed", "clone"})

SpecLifecycle == Init /\ [][NextLifecycle]_vars

\* Allocation, seeding, drawing, the catalog and the queries.
NextCatalog ==
    \/ Plain(\E h \in H, T \in Types, a \in Addr : Alloc(h, T, a))
    \/ Plain(\E a \in Addr : Finalizer(a))
    \/ Plain(\E h \in H, seed \in Seeds : Set(h, seed))
    \/ Plain(\E h \in H : Get(h))
    \/ Plain(\E h \in H : Name(h))
    \/ Plain(\E h \in H : Max(h))
    \/ Plain(\E h \in H : Min(h))
    \/ Plain(\E h \in H : Size(h))
    \/ Plain(\E h \in H : State(h))
    \/ Plain(Default)
    \/ Plain(DefaultSeed)
    \/ Plain(\E T \in Types : TypeName(T))
    \/ Plain(TypesSetup)
    \/ Plain(\E envType \in EnvTypes, envSeed \in EnvSeeds : EnvSetup(envType, envSeed))

SpecCatalog == Init /\ [][NextCatalog]_vars

\* Allocation, seeding, writing and reading, with the history of the watched
\* variable's restores.
NextSerial ==
    \/ Watching(\E h \in H, T \in Types, a \in Addr : Alloc(h, T, a), {"fresh", "fread"})
    \/ Watching(\E a \in Addr : Finalizer(a), {"fresh", "fread"})
    \/ Watching(\E h \in H, seed \in Seeds : Set(h, seed), {"fresh", "fread"})
    \/ Watching(\E h \in H, k \in Transfers : Fwrite(h, k), {"fresh", "fread"})
    \/ Watching(\E h \in H, k \in Transfers : Fread(h, k), {"fresh", "fread"})

SpecSerial == Init /\ [][NextSerial]_vars

\* ------------------------------------------------------------------ claims

\* max - min + 1 of the generator the last call read.
RangeSize == TypeMax(lastOp.typ) - TypeMin(lastOp.typ) + 1

\* C1, as stated: UniformInt with a limit above the generator's range size
\* returns an InvalidRange error to its caller, and no integer.
C1_InvalidRangeReturned ==
    (lastOp.op = "UniformInt" /\ lastOp.arg > RangeSize)
        => (lastOp.outcome = "returned" /\ lastOp.err = "InvalidRange")

\* C1, amended: UniformInt with a limit above the generator's range size has
\* no error result to give: GSL's error handler is called with GSL_EINVAL and
\* the process aborts, or (another handler installed) the call returns the
\* integer 0; a call through a freed generator may die before that.
C1_InvalidRangeHandled ==
    (lastOp.op = "UniformInt" /\ lastOp.arg > RangeSize)
        => /\ lastOp.err = "n/a"
           /\ \/ lastOp.outcome = "segv"
              \/ lastOp.outcome = "abort" /\ lastOp.gslerr = "EINVAL"
              \/ lastOp.outcome = "returned" /\ lastOp.gslerr = "EINVAL" /\ lastOp.res = 0

\* C1, the case: a limit above the range size, the error handler returned.
C1_Witness ==
    /\ lastOp.op = "UniformInt"
    /\ lastOp.arg > RangeSize
    /\ lastOp.outcome = "returned"
    /\ lastOp.gslerr = "EINVAL"

\* The raw values of an algorithm, min..max.
RawValues(T) == TypeMin(T)..TypeMax(T)

\* C2, as stated: for every limit n with 1 <= n <= R = max - min + 1, n = R
\* included, UniformInt returns a value in [0, n-1] (no error is raised).
C2_InRangeUpToR ==
    (lastOp.op = "UniformInt" /\ lastOp.arg >= 1 /\ lastOp.arg <= RangeSize)
        => /\ lastOp.outcome \in {"returned", "segv"}
           /\ lastOp.gslerr = "none"
           /\ lastOp.outcome = "returned" => lastOp.res \in 0..(lastOp.arg - 1)

\* C2, amended: for every limit n with 1 <= n <= max - min = R - 1, every
\* UniformInt that returns gives a value in [0, n-1] without error, and each
\* result in [0, n-1] is the image of the same number of accepted raw values
\* (range / n of them); n = R is refused like every larger n.
C2_Unbiased ==
    /\ (lastOp.op = "UniformInt" /\ lastOp.arg >= 1 /\ lastOp.arg <= RangeSize - 1
            /\ lastOp.outcome = "returned")
         => /\ lastOp.gslerr = "none"
            /\ lastOp.res \in 0..(lastOp.arg - 1)
            /\ \A r \in 0..(lastOp.arg - 1) :
                 Cardinality({raw \in RawValues(lastOp.typ) :
                                UniformIntScaled(lastOp.typ, lastOp.arg, raw) = r})
                   = (RangeSize - 1) \div lastOp.arg
    /\ (lastOp.op = "UniformInt" /\ lastOp.arg = RangeSize)
         => lastOp.outcome = "segv" \/ lastOp.gslerr = "EINVAL"

\* C2, the case: a limit that does not divide R, some raw value rejected, and
\* a result other than 0 returned.
C2_Witness ==
    /\ lastOp.op = "UniformInt"
    /\ lastOp.outcome = "returned"
    /\ lastOp.arg >= 2 /\ lastOp.arg <= RangeSize - 1
    /\ RangeSize % lastOp.arg # 0
    /\ lastOp.res = lastOp.arg - 1
    /\ \E raw \in RawValues(lastOp.typ) :
         UniformIntScaled(lastOp.typ, lastOp.arg, raw) >= lastOp.arg

\* C3: Memcpy into a generator of another type fails with a TypeMismatch
\* error that its caller gets.
C3_MismatchSurfaced ==
    (lastOp.op = "Memcpy" /\ lastOp.typ # lastOp.typ2)
        => (lastOp.outcome = "returned" /\ lastOp.err = "TypeMismatch")

\* C4: after c = s.Clone(), whatever is done through other variables, the
\* n-th Get through c returns the n-th value of the generator s was at the
\* time of the clone.
C4_CloneIsValueCopy ==
    (lastOp.op = "Get" /\ lastOp.h = Watched /\ lastOp.outcome = "returned"
        /\ track.kind = "clone" /\ track.n >= 1)
        => lastOp.res = NthRaw(track.typ, track.buf, track.n)

\* C5: a complete Fwrite of a generator, then a successful Fread of the file
\* into a freshly allocated state of the same type, leaves that state with
\* the type and the buffer the written generator had.
C5_RoundTrip ==
    (lastOp.op = "Fread" /\ lastOp.h = Watched /\ lastOp.outcome = "returned"
        /\ track.kind = "fread")
        => (Gen(Watched).typ = track.typ /\ Gen(Watched).buf = track.buf)

\* C6: after Set(seed) through a variable, whatever was done before and
\* whatever is done through other variables, the n-th Get through it returns
\* the n-th value of its algorithm seeded with seed.
C6_SeedDeterministic ==
    (lastOp.op = "Get" /\ lastOp.h = Watched /\ lastOp.outcome = "returned"
        /\ track.kind = "seed" /\ track.n >= 1)
        => lastOp.res = NthRaw(track.typ, TypeSet(track.typ, track.seed), track.n)

\* A generator at address a is reclaimed in this step.
Reclaimed(a) == heap[a].live /\ ~heap'[a].live

\* C7, as stated: a generator is reclaimed only in a step in which its owner
\* calls release, never by a finalizer.
C7_ReclaimedByRelease ==
    [][\A a \in Addr : Reclaimed(a) => lastOp'.op = "Release"]_vars

\* C7, amended: the package has no release operation; a generator made by
\* Alloc is reclaimed only by the finalizer Alloc set, when the garbage
\* collector runs it, and a generator made by Clone is never reclaimed.
C7_ReclaimedByFinalizer ==
    [][\A a \in Addr :
         /\ Reclaimed(a) =>
              (lastOp'.op = "finalizer" /\ lastOp'.arg = a /\ heap[a].by = "Alloc")
         /\ (heap[a].live /\ heap[a].by = "Clone") => heap'[a].live]_vars

\* C7, the case: a finalizer has just reclaimed a generator made by Alloc,
\* while a generator made by Clone is alive.
C7_Witness ==
    /\ lastOp.op = "finalizer"
    /\ ~heap[lastOp.arg].live /\ heap[lastOp.arg].by = "Alloc"
    /\ \E a \in Addr : heap[a].live /\ heap[a].by = "Clone"

\* C8, as stated: Default() and DefaultSeed() return what they returned at
\* the start, whatever was called in between.
C8_DefaultsNeverChange ==
    /\ lastOp.op = "Default" => lastOp.res = "mt19937"
    /\ lastOp.op = "DefaultSeed" => lastOp.res = 0

\* A step in which EnvSetup returns a generator.
EnvSetupDone ==
    lastOp'.op = "EnvSetup" /\ lastOp'.outcome = "returned" /\ lastOp'.gslerr = "none"

\* C8, amended: gsl_rng_default and gsl_rng_default_seed, which Default() and
\* DefaultSeed() return, are left alone by every operation but EnvSetup,
\* which sets them to the generator GSL_RNG_TYPE names (mt19937 when unset)
\* and to the seed GSL_RNG_SEED holds (0 when unset).
C8_DefaultsSetByEnvSetup ==
    [][/\ EnvSetupDone =>
            /\ defaultType' = IF lastOp'.typ = "unset" THEN "mt19937" ELSE lastOp'.typ
            /\ defaultSeed' = IF lastOp'.arg = -1 THEN 0 ELSE lastOp'.arg
       /\ ~EnvSetupDone => UNCHANGED <<defaultType, defaultSeed>>
       /\ lastOp'.op = "Default" => lastOp'.res = defaultType
       /\ lastOp'.op = "DefaultSeed" => lastOp'.res = defaultSeed]_vars

\* C8, the case: DefaultSeed() returns a seed EnvSetup has set.
C8_Witness ==
    /\ lastOp.op = "DefaultSeed"
    /\ lastOp.res = 1
    /\ defaultType = "minstd"

C10_NoUseAfterFree ==
    \A h \in H : Held(h) => Gen(h).live

====
